---- MODULE Spec2Model ----
(***************************************************************************)
(* Geo-targeting resolution of the job campaign manager:                   *)
(*   server/geo/outcode-targeting.cjs  (extractOutcodeFromPostcode,        *)
(*                                      expandAreaToOutcodes,              *)
(*                                      fetchOutcodeStats,                 *)
(*                                      resolveTargeting)                  *)
(*   server/server.js                  (deriveOutcodeFromPostcode)         *)
(*                                                                         *)
(* A JavaScript string is a sequence of one-character strings; null and    *)
(* undefined inputs are the value Null.  The two MySQL tables are sets of  *)
(* rows; a query is one atomic step that either answers or fails.          *)
(*                                                                         *)
(* Campaign rows and their channel toggles:                                *)
(*   lib/utils.ts, lib/api.ts          (deriveStatusAsOf,                  *)
(*                                      adaptFromJobsInCare)               *)
(*   components/JobCampaignManager.tsx (the toggles of the jobs table)     *)
(* The publish server (Express):                                           *)
(*   POST /api/jobs/:jobId/location, POST /api/publish/toggle,             *)
(*   GET /api/jobs and the switches of the Job Campaigns table             *)
(* The feeds server (server/server.js):                                    *)
(*   GET /api/jobs, GET /api/feeds/..., POST /api/admin/settings and the   *)
(*   MySQL adapter (ensurePool, getDistrictsByCounty, getByDistrictPrefix) *)
(* The API client (lib/api.ts): fetchPagedJobs                             *)
(***************************************************************************)
EXTENDS Integers, Sequences, FiniteSets, TLC

VARIABLES
    names,        \* table os_open_names: rows [outcode, county, district, region]
    stats,        \* table postcode_district_stats: rows [outcode, radius, diameter, easting, northing]
    pc,           \* where the running call is: idle, statsPC, expand, statsArea, done
    jobLocation,  \* argument of the running call
    poolsCreated, \* mysql.createPool calls made so far by makePool
    expanded,     \* rows returned by expandAreaToOutcodes in the running call
    queries,      \* queries the running call has issued, in order
    result,       \* what the call settled with: NoResult, Rejected or a result object
    fnInput,      \* argument of the last direct call of a pure helper
    fnName,       \* which pure helper was called last
    fnResult,     \* what it returned
    today,        \* the current day, as a day number (todayISO)
    jobRows,      \* the JobRow list adaptFromJobsInCare built last
    toggleLS,     \* localStorage: the <<jobId, slug>> whose key jc.toggle.<jobId>.<slug> holds true
    overrides,    \* location-overrides.json: jobId -> areaToken
    byChannel,    \* publishState.byChannel: channelId -> the jobIds active under it
    request,      \* the request the publish server handled last
    response,     \* and its response
    pool,         \* the shared pool of the MySQL adapter: 0 for null, else the number of a created pool
    poolState,    \* for each pool created, its connectivity check: pending, ok or failed
    callers,      \* the running calls of getDistrictsByCounty / getByDistrictPrefix, by caller
    pgPc,         \* fetchPagedJobs: idle, in its loop, or done
    pgMaxPages,   \* its argument maxPages
    pgPage,       \* its local page
    pgMode,       \* its local mode: unknown, pageNumber or page
    pgAll,        \* the number of jobs in its local all
    pgLog,        \* the requests it has sent, in order
    serverZone,   \* feeds server: the time zone of the process
    upstream,     \* the jobs the upstream board lists
    settings,     \* feeds server: settings.json
    feedRequest,  \* the last request to the feeds server
    feedResponse, \* and its response
    tableJobs     \* the jobs of the Job Campaigns table, as last served

vars == <<names, stats, pc, jobLocation, poolsCreated, expanded,
          queries, result, fnInput, fnName, fnResult,
          today, jobRows, toggleLS, overrides, byChannel, request, response,
          pool, poolState, callers,
          pgPc, pgMaxPages, pgPage, pgMode, pgAll, pgLog,
          serverZone, upstream, settings, feedRequest, feedResponse, tableJobs>>

campaignVars == <<today, jobRows, toggleLS>>

publishVars == <<overrides, byChannel, request, response>>

uiVars == <<campaignVars, publishVars>>

geoVars == <<pool, poolState, callers>>

pagerVars == <<pgPc, pgMaxPages, pgPage, pgMode, pgAll, pgLog>>

feedVars == <<serverZone, upstream, settings, feedRequest, feedResponse>>

tableVars == <<tableJobs>>

restVars == <<geoVars, pagerVars, feedVars, tableVars>>

callVars == <<names, stats, pc, jobLocation, poolsCreated, expanded,
              queries, result>>

fnVars == <<fnInput, fnName, fnResult>>

(***************************************************************************)
(* Characters and strings                                                  *)
(***************************************************************************)

UpperSeq == <<"A","B","C","D","E","F","G","H","I","J","K","L","M",
              "N","O","P","Q","R","S","T","U","V","W","X","Y","Z">>

LowerSeq == <<"a","b","c","d","e","f","g","h","i","j","k","l","m",
              "n","o","p","q","r","s","t","u","v","w","x","y","z">>

DigitSeq == <<"0","1","2","3","4","5","6","7","8","9">>

\* The characters of the model in UTF-16 code unit order (what Array.sort uses).
CodeOrder == <<" ", "%">> \o DigitSeq \o UpperSeq \o <<"\\", "_">> \o LowerSeq

Range(f) == {f[i] : i \in DOMAIN f}

UpperSet == Range(UpperSeq)

LowerSet == Range(LowerSeq)

DigitSet == Range(DigitSeq)

IsUpper(c) == c \in UpperSet

IsLower(c) == c \in LowerSet

IsDigit(c) == c \in DigitSet

\* \s of a JavaScript regular expression, and what String.prototype.trim strips.
IsSpace(c) == c \in {" ", "\t"}

\* the code unit rank of each character
CodeOf == [c \in Range(CodeOrder) |-> CHOOSE i \in DOMAIN CodeOrder : CodeOrder[i] = c]

CharCode(c) == CodeOf[c]

\* the upper-case letter of each lower-case letter
UpperOf == [c \in LowerSet |-> UpperSeq[CHOOSE i \in DOMAIN LowerSeq : LowerSeq[i] = c]]

ToUpperChar(c) == IF IsLower(c) THEN UpperOf[c] ELSE c

\* String.prototype.toUpperCase
ToUpperCase(s) == [i \in DOMAIN s |-> ToUpperChar(s[i])]

\* String.prototype.slice(from, to) with 0-based from (inclusive) and to (exclusive)
Slice(s, from, to) == SubSeq(s, from + 1, to)

\* String.prototype.trim
Trim(s) ==
    LET keep == {i \in DOMAIN s : ~IsSpace(s[i])}
    IN  IF keep = {} THEN <<>>
        ELSE LET lo == CHOOSE i \in keep : \A j \in keep : i <= j
                 hi == CHOOSE i \in keep : \A j \in keep : i >= j
             IN  SubSeq(s, lo, hi)

\* s.replace(/\s+/g, "")
RECURSIVE RemoveSpaces(_)
RemoveSpaces(s) ==
    IF s = <<>> THEN <<>>
    ELSE IF IsSpace(Head(s)) THEN RemoveSpaces(Tail(s))
         ELSE <<Head(s)>> \o RemoveSpaces(Tail(s))

\* String.prototype.indexOf(" "), 0-based, -1 when absent
IndexOfSpace(s) ==
    LET at == {i \in DOMAIN s : s[i] = " "}
    IN  IF at = {} THEN -1 ELSE (CHOOSE i \in at : \A j \in at : i <= j) - 1

\* The default comparison of Array.prototype.sort: UTF-16 code units, shorter prefix first.
RECURSIVE StrLess(_, _)
StrLess(a, b) ==
    IF b = <<>> THEN FALSE
    ELSE IF a = <<>> THEN TRUE
    ELSE IF Head(a) # Head(b) THEN CharCode(Head(a)) < CharCode(Head(b))
    ELSE StrLess(Tail(a), Tail(b))

\* The elements of a set of strings as the sequence Array.prototype.sort leaves.
RECURSIVE SortStrings(_)
SortStrings(S) ==
    IF S = {} THEN <<>>
    ELSE LET m == CHOOSE x \in S : \A y \in S \ {x} : StrLess(x, y)
         IN  <<m>> \o SortStrings(S \ {m})

\* null / undefined
Null == <<"null">>

\* A regular expression that did not match, and the null extractOutcodeFromPostcode returns.
NoMatch == <<"nomatch">>

\* !input of JavaScript: null, undefined and "" are falsy
Falsy(v) == v = Null \/ v = <<>>

(***************************************************************************)
(* extractOutcodeFromPostcode (outcode-targeting.cjs)                      *)
(***************************************************************************)

\* The ways /^([A-Z]{1,2}\d{1,2}[A-Z]?)[\s]?\d[A-Z]{2}$/ can split a string, in the
\* order a backtracking matcher tries them (each quantifier greedy): a letters,
\* d digits, l optional letter, w optional whitespace, then the 3 incode characters.
OutcodeRegexSplits ==
    << [a |-> 2, d |-> 2, l |-> 1, w |-> 1], [a |-> 2, d |-> 2, l |-> 1, w |-> 0],
       [a |-> 2, d |-> 2, l |-> 0, w |-> 1], [a |-> 2, d |-> 2, l |-> 0, w |-> 0],
       [a |-> 2, d |-> 1, l |-> 1, w |-> 1], [a |-> 2, d |-> 1, l |-> 1, w |-> 0],
       [a |-> 2, d |-> 1, l |-> 0, w |-> 1], [a |-> 2, d |-> 1, l |-> 0, w |-> 0],
       [a |-> 1, d |-> 2, l |-> 1, w |-> 1], [a |-> 1, d |-> 2, l |-> 1, w |-> 0],
       [a |-> 1, d |-> 2, l |-> 0, w |-> 1], [a |-> 1, d |-> 2, l |-> 0, w |-> 0],
       [a |-> 1, d |-> 1, l |-> 1, w |-> 1], [a |-> 1, d |-> 1, l |-> 1, w |-> 0],
       [a |-> 1, d |-> 1, l |-> 0, w |-> 1], [a |-> 1, d |-> 1, l |-> 0, w |-> 0] >>

\* With the i flag [A-Z] accepts both cases.
IsLetterI(c) == IsUpper(c) \/ IsLower(c)

SplitFits(s, sp) ==
    LET g == sp.a + sp.d + sp.l
        n == g + sp.w + 3
    IN  /\ Len(s) = n
        /\ \A i \in 1..sp.a : IsLetterI(s[i])
        /\ \A i \in (sp.a + 1)..(sp.a + sp.d) : IsDigit(s[i])
        /\ \A i \in (sp.a + sp.d + 1)..g : IsLetterI(s[i])
        /\ \A i \in (g + 1)..(g + sp.w) : IsSpace(s[i])
        /\ IsDigit(s[g + sp.w + 1])
        /\ IsLetterI(s[g + sp.w + 2])
        /\ IsLetterI(s[g + sp.w + 3])

\* s.match(OUTCODE_REGEX): capture group 1 of the first split that fits, or NoMatch
OUTCODE_REGEX(s) ==
    LET fit == {k \in DOMAIN OutcodeRegexSplits : SplitFits(s, OutcodeRegexSplits[k])}
    IN  IF fit = {} THEN NoMatch
        ELSE LET k  == CHOOSE x \in fit : \A y \in fit : x <= y
                 sp == OutcodeRegexSplits[k]
             IN  SubSeq(s, 1, sp.a + sp.d + sp.l)

extractOutcodeFromPostcode(input) ==
    IF Falsy(input) THEN NoMatch
    ELSE OUTCODE_REGEX(ToUpperCase(Trim(input)))

(***************************************************************************)
(* deriveOutcodeFromPostcode (server.js)                                   *)
(***************************************************************************)

\* noSpace.match(/^([A-Z]{1,2}\d[A-Z\d]?)(\d[A-Z]{2})$/): capture group 1 or NoMatch.
\* a letters, one digit, x optional letter-or-digit, then the 3 incode characters.
DeriveRegex(s) ==
    LET fit == {sp \in [a : {1, 2}, x : {0, 1}] :
                  /\ Len(s) = sp.a + 1 + sp.x + 3
                  /\ \A i \in 1..sp.a : IsUpper(s[i])
                  /\ IsDigit(s[sp.a + 1])
                  /\ \A i \in (sp.a + 2)..(sp.a + 1 + sp.x) : IsUpper(s[i]) \/ IsDigit(s[i])
                  /\ IsDigit(s[Len(s) - 2])
                  /\ IsUpper(s[Len(s) - 1])
                  /\ IsUpper(s[Len(s)])}
    IN  IF fit = {} THEN NoMatch
        ELSE SubSeq(s, 1, Len(s) - 3)

deriveOutcodeFromPostcode(postcode) ==
    IF Falsy(postcode) THEN <<>>
    ELSE LET raw     == Trim(ToUpperCase(postcode))
             noSpace == RemoveSpaces(raw)
             m       == DeriveRegex(noSpace)
             sp      == IndexOfSpace(raw)
         IN  IF m # NoMatch THEN m
             ELSE IF sp > 0 THEN Slice(raw, 0, sp)
             ELSE IF Len(raw) > 3 THEN Slice(raw, 0, Len(raw) - 3)
             ELSE raw

(***************************************************************************)
(* The reference dataset as MySQL answers it                               *)
(***************************************************************************)

\* Equality under the tables' collation.  MySQL's default collations are
\* case-insensitive, which is what LIKE, DISTINCT and IN compare with.
CollationEq(a, b) == a # Null /\ b # Null /\ ToUpperCase(a) = ToUpperCase(b)

\* text LIKE pattern: % any run, _ any one character, \ escapes the next character
RECURSIVE LikeMatch(_, _)
LikeMatch(t, p) ==
    IF p = <<>> THEN t = <<>>
    ELSE IF Head(p) = "%" THEN
        LikeMatch(t, Tail(p)) \/ (t # <<>> /\ LikeMatch(Tail(t), p))
    ELSE IF Head(p) = "_" THEN
        t # <<>> /\ LikeMatch(Tail(t), Tail(p))
    ELSE IF Head(p) = "\\" /\ Len(p) >= 2 THEN
        t # <<>> /\ ToUpperChar(Head(t)) = ToUpperChar(p[2]) /\ LikeMatch(Tail(t), Tail(Tail(p)))
    ELSE
        t # <<>> /\ ToUpperChar(Head(t)) = ToUpperChar(Head(p)) /\ LikeMatch(Tail(t), Tail(p))

\* CONCAT('%', ?, '%'): the parameter between two wildcards, whatever it holds
LikePattern(location) == <<"%">> \o location \o <<"%">>

\* field LIKE CONCAT('%', ?, '%'); NULL LIKE anything is not true
LikeConcat(field, location) ==
    field # Null /\ LikeMatch(field, LikePattern(location))

\* The query expandAreaToOutcodes sends, with the pattern its conditions compare against
ExpandQuery(location) == [kind |-> "expand", params |-> <<LikePattern(location)>>]

\* The WHERE clause of expandAreaToOutcodes
ExpandWhere(r, location) ==
    /\ r.outcode # Null
    /\ r.outcode # <<>>
    /\ \/ LikeConcat(r.county, location)
       \/ LikeConcat(r.district, location)
       \/ LikeConcat(r.region, location)

\* SELECT DISTINCT keeps one value of each group of values the collation holds equal;
\* which one is the server's choice.
DistinctChoices(S) ==
    {R \in SUBSET S :
        \A x \in S : Cardinality({y \in R : CollationEq(x, y)}) = 1}

\* ORDER BY outcode: ascending under the collation
OrderByCollation(R) ==
    LET byKey == [k \in {ToUpperCase(x) : x \in R} |-> CHOOSE x \in R : ToUpperCase(x) = k]
        keys  == SortStrings(DOMAIN byKey)
    IN  [i \in DOMAIN keys |-> byKey[keys[i]]]

\* The row lists expandAreaToOutcodes can return for a location: rows.map(r => r.outcode)
expandAreaToOutcodes(location) ==
    LET hit == {r.outcode : r \in {x \in names : ExpandWhere(x, location)}}
    IN  {OrderByCollation(R) : R \in DistinctChoices(hit)}

(***************************************************************************)
(* Values of a stats column and Number()                                   *)
(***************************************************************************)

JsNum(n) == [t |-> "num", v |-> n]

\* a DECIMAL column, which mysql2 hands over as a numeric string
JsNumStr(n) == [t |-> "numstr", v |-> n]

\* a string that is no number
JsText == [t |-> "text", v |-> 0]

JsNull == [t |-> "null", v |-> 0]

JsNaN == [t |-> "nan", v |-> 0]

\* Number(x): a number stays, a numeric string parses, null gives 0, other text gives NaN
Number(x) ==
    CASE x.t = "num"    -> x
      [] x.t = "numstr" -> JsNum(x.v)
      [] x.t = "null"   -> JsNum(0)
      [] OTHER          -> JsNaN

\* The rows of fetchOutcodeStats's query: WHERE outcode IN (?, ?, ...)
StatsRows(outcodes) ==
    {r \in stats : \E i \in DOMAIN outcodes : CollationEq(r.outcode, outcodes[i])}

\* A lookup that sends one statement for each outcode
StatsQuery_PerOutcode(outcodes) ==
    [i \in DOMAIN outcodes |-> [kind |-> "stats", params |-> <<outcodes[i]>>]]

\* The queries fetchOutcodeStats sends for a non-empty list: one statement with a
\* placeholder for each outcode
StatsQuery(outcodes) == <<[kind |-> "stats", params |-> outcodes]>>

\* The entry fetchOutcodeStats stores for a row
StatsEntry(r) ==
    [outcode             |-> r.outcode,
     approx_radius_km    |-> Number(r.radius),
     approx_diameter_km  |-> Number(r.diameter),
     centroid_easting_m  |-> Number(r.easting),
     centroid_northing_m |-> Number(r.northing)]

\* A lookup that asks for the first outcode alone
fetchOutcodeStats_FirstOnly(outcodes) ==
    IF outcodes = <<>> THEN <<>>
    ELSE LET rows == StatsRows(<<Head(outcodes)>>)
         IN  [k \in {r.outcode : r \in rows} |->
                 StatsEntry(CHOOSE r \in rows : r.outcode = k)]

\* fetchOutcodeStats(pool, outcodes) when the query answers: the Map, keyed by r.outcode
fetchOutcodeStats(outcodes) ==
    IF outcodes = <<>> THEN <<>>
    ELSE LET rows == StatsRows(outcodes)
         IN  [k \in {r.outcode : r \in rows} |->
                 StatsEntry(CHOOSE r \in rows : r.outcode = k)]

(***************************************************************************)
(* resolveTargeting: normalisation and the result object                   *)
(***************************************************************************)

\* A join that ends every element with the separator
RECURSIVE Join_Trailing(_, _)
Join_Trailing(list, sep) ==
    IF list = <<>> THEN <<>>
    ELSE Head(list) \o sep \o Join_Trailing(Tail(list), sep)

\* Array.prototype.join
RECURSIVE Join(_, _)
Join(list, sep) ==
    IF list = <<>> THEN <<>>
    ELSE IF Len(list) = 1 THEN Head(list)
    ELSE Head(list) \o sep \o Join(Tail(list), sep)

\* The primary order of String.prototype.localeCompare: spaces and punctuation,
\* then digits, then letters without regard to case.
LocaleOrder == <<" ", "_", "%", "\\">> \o DigitSeq \o UpperSeq

LocaleKey(c) == CHOOSE i \in DOMAIN LocaleOrder : LocaleOrder[i] = ToUpperChar(c)

RECURSIVE LocalePrimaryLess(_, _)
LocalePrimaryLess(a, b) ==
    IF b = <<>> THEN FALSE
    ELSE IF a = <<>> THEN TRUE
    ELSE IF LocaleKey(Head(a)) # LocaleKey(Head(b)) THEN LocaleKey(Head(a)) < LocaleKey(Head(b))
    ELSE LocalePrimaryLess(Tail(a), Tail(b))

\* a.localeCompare(b) < 0; strings equal but for case order lower case first
LocaleLess(a, b) ==
    IF ToUpperCase(a) # ToUpperCase(b) THEN LocalePrimaryLess(a, b)
    ELSE /\ a # b
         /\ LET i == CHOOSE k \in DOMAIN a : a[k] # b[k] /\ \A j \in 1..(k - 1) : a[j] = b[j]
            IN  IsLower(a[i])

\* statsList.sort((a, b) => a.outcode.localeCompare(b.outcode)); the sort is stable
RECURSIVE InsertCoverage(_, _)
InsertCoverage(sorted, e) ==
    IF sorted = <<>> THEN <<e>>
    ELSE IF LocaleLess(e.outcode, Head(sorted).outcode) THEN <<e>> \o sorted
    ELSE <<Head(sorted)>> \o InsertCoverage(Tail(sorted), e)

RECURSIVE SortCoverage(_)
SortCoverage(list) ==
    IF list = <<>> THEN <<>>
    ELSE InsertCoverage(SortCoverage(SubSeq(list, 1, Len(list) - 1)), list[Len(list)])

\* The outcodes as gathered, neither de-duplicated nor sorted
Uniq_Unsorted(outcodes) == outcodes

\* Array.from(new Set(outcodes.map(String))).sort()
Uniq(outcodes) == SortStrings(Range(outcodes))

\* Every entry of the Map pushed, asked for or not
StatsListOf_All(list, map) ==
    LET keys == SortStrings(DOMAIN map)
    IN  [i \in DOMAIN keys |-> map[keys[i]]]

\* for (const oc of expanded) { const item = stats.get(oc); if (item) statsList.push(item); }
RECURSIVE StatsListOf(_, _)
StatsListOf(list, map) ==
    IF list = <<>> THEN <<>>
    ELSE (IF Head(list) \in DOMAIN map THEN <<map[Head(list)]>> ELSE <<>>)
         \o StatsListOf(Tail(list), map)

NoResult == [kind |-> "none"]

\* the promise of resolveTargeting rejected
Rejected == [kind |-> "rejected"]

\* The object resolveTargeting returns for the outcodes and stats it gathered
ResultObject(outcodes, statsList) ==
    LET uniq == Uniq(outcodes)
    IN  [kind |-> "ok",
         postal_codes |-> uniq,
         postal_code_system |-> "GB_POSTCODE_DISTRICT",
         coverage |-> SortCoverage(statsList),
         platform_serializations |->
            [meta_bulk_text          |-> Join(uniq, <<"\n">>),
             tiktok_postal_codes     |-> uniq,
             linkedin_postal_codes   |-> uniq,
             pinterest_postal_codes  |-> uniq,
             google_ads_postal_codes |-> uniq]]

\* The full-postcode test without the trim and the upper-casing of its input
IsFullPostcode_Raw(loc) == ~Falsy(loc) /\ loc = ToUpperCase(loc) /\ OUTCODE_REGEX(loc) # NoMatch

\* if (outcodeFromPC): the full-postcode branch is taken
IsFullPostcode(loc) == extractOutcodeFromPostcode(loc) # NoMatch

\* The area test without the trim: else if (jobLocation)
IsAreaText_NoTrim(loc) == ~Falsy(loc)

\* else if (jobLocation && jobLocation.trim()): the area branch is taken
IsAreaText(loc) == ~Falsy(loc) /\ Trim(loc) # <<>>

(***************************************************************************)
(* Reference data and inputs                                               *)
(***************************************************************************)

\* rows the os_open_names table may hold
MaxRows == 3

\* rows the postcode_district_stats table may hold
MaxStats == 2

\* pools makePool may create before the model stops calling without opts.pool
MaxPools == 2

KA10 == <<"K","A","1","0">>

KA11 == <<"K","A","1","1">>

G64 == <<"G","6","4">>

Ayrshire == <<"A","y","r","s","h","i","r","e">>

NameRow(o, c, d, r) == [outcode |-> o, county |-> c, district |-> d, region |-> r]

\* Rows of os_open_names: matches by county, by district and by region, a county
\* that contains a full postcode, an outcode stored in lower case, and the empty
\* and NULL districts the query excludes.
NameRowChoices ==
    { NameRow(KA10, Ayrshire, Null, Null),
      NameRow(KA11, Null, Ayrshire, Null),
      NameRow(G64, <<"G","6","4"," ","1","A","B">>, Null, Ayrshire),
      NameRow(<<"k","a","1","0">>, <<"N","o","r","t","h"," ","A","y","r","s","h","i","r","e">>, Null, Null),
      NameRow(<<>>, Ayrshire, Ayrshire, Null),
      NameRow(Null, Null, Null, Ayrshire) }

NameTables == {t \in SUBSET NameRowChoices : Cardinality(t) <= MaxRows}

StatsRow(o, r, d, e, n) ==
    [outcode |-> o, radius |-> r, diameter |-> d, easting |-> e, northing |-> n]

\* Rows of postcode_district_stats: numbers and numeric strings, a NULL column,
\* a non-numeric and a negative column, and an outcode stored in lower case.
StatsRowChoices ==
    { StatsRow(KA10, JsNum(3), JsNumStr(6), JsNum(230), JsNum(640)),
      StatsRow(KA11, JsNum(4), JsNum(8), JsNum(231), JsNum(641)),
      StatsRow(G64, JsNull, JsNum(5), JsNum(260), JsNum(670)),
      StatsRow(<<"k","a","1","0">>, JsNum(2), JsText, JsNum(-1), JsNum(665)) }

\* at most one stats row per outcode
StatsTables ==
    {t \in SUBSET StatsRowChoices :
        /\ Cardinality(t) <= MaxStats
        /\ \A x, y \in t : CollationEq(x.outcode, y.outcode) => x = y}

\* String.prototype.toLowerCase
ToLowerCase(s) ==
    [i \in DOMAIN s |->
        IF IsUpper(s[i]) THEN LowerSeq[CHOOSE k \in DOMAIN UpperSeq : UpperSeq[k] = s[i]]
        ELSE s[i]]

\* Postcodes of the formats A9, A99, A9A, AA9, AA99, AA9A + 9AA, written with and
\* without the separating space, in upper and in lower case.
PostcodeForms ==
    LET upper == {a \o d \o w \o <<"1","A","B">> :
                    a \in {<<"G">>, <<"K","A">>},
                    d \in {<<"6">>, <<"6","4">>, <<"6","A">>},
                    w \in {<<>>, <<" ">>}}
    IN  upper \cup {ToLowerCase(p) : p \in upper}

\* The special postcode GIR 0AA
GirForms == {<<"G","I","R"," ","0","A","A">>, <<"G","I","R","0","A","A">>, <<"g","i","r"," ","0","a","a">>}

\* Other locations a job record may carry
OtherLocations ==
    { Null, <<>>, <<" ">>, <<" "," ">>,
      KA10, G64, <<"G","6">>, <<"M","1"," ","1","A","A">>, <<" ","g","6","4"," ","1","a","b"," ">>, <<"G","6","4"," "," ","1","A","B">>,
      Ayrshire, <<"a","y","r">>, <<"N","o","r","t","h"," ","A","y","r","s","h","i","r","e">>, <<" ","A","y","r"," ">>, <<"G","l","a","s","g","o","w">>,
      <<"_">>, <<"A","_","r">>, <<"A","y","r","%">> }

Locations == PostcodeForms \cup GirForms \cup OtherLocations

\* Further strings handed to the postcode helpers alone
HelperInputs ==
    Locations \cup
    { <<"E","C","1","A"," ","1","B","B">>, <<"W","1","A","0","A","X">>, <<"K","A","6","4","A"," ","1","A","B">>,
      <<"k","a","6","4","a","1","a","b">>, <<"G"," ","6","4"," ","1","A","B">>, <<"G","6","4"," ","1","A">>,
      <<"K","A","1">>, <<"K","_","1"," ","1","A","B">>, <<"N","1"," ","9","G","U">>, <<"S","W","1","A"," ","2","A","A">>,
      <<"s","w","1","a","2","a","a">>, <<"1","A","B">>, <<"A","B">>, <<"N","o","r","t","h">>,
      <<"G","6","4","\t","1","A","B">>, <<"G","6","4","A","\t","1","A","B">> }

(***************************************************************************)
(* Campaign rows: status and channel toggles                               *)
(***************************************************************************)

\* days the clock may advance
MaxDay == 1

\* jobs a payload may list
MaxJobs == 2

\* return d <= 42 ? "Live" : "Expired"; the 6 weeks window
LiveWindowDays == 42

JobIds == {"101", "102"}

\* the slugs of the channel columns
ChannelSlugs == {"linkedin", "tiktok"}

\* j.created of a payload job, as a day number in a one-element sequence; <<>> when
\* the field is missing or no date
CreatedChoices == {<<>>, <<0 - 43>>, <<0 - 42>>, <<0>>, <<1>>}

ApiJob(id, created) == [id |-> id, created |-> created]

\* raw.jobs: lists of up to MaxJobs jobs with distinct ids
RawJobLists ==
    {list \in UNION {[1..n -> {ApiJob(id, c) : id \in JobIds, c \in CreatedChoices}] : n \in 0..MaxJobs} :
        \A i, j \in DOMAIN list : list[i].id = list[j].id => i = j}

\* toISODate(input, true): the date of the input, today when there is none
toISODate(input) == IF input = <<>> THEN <<today>> ELSE input

\* daysBetween(aISO, bISO): whole days from a to b
daysBetween(a, b) == b - a

\* deriveStatusAsOf(row, asOfISO)
deriveStatusAsOf(row, asOf) ==
    IF row.liveDate = <<>> THEN "Pending"
    ELSE LET d == daysBetween(row.liveDate[1], asOf)
         IN  IF d < 0 THEN "Pending"
             ELSE IF d <= LiveWindowDays THEN "Live" ELSE "Expired"

\* The JobRow adaptFromJobsInCare builds for a job of the payload
JobRowOf(j) ==
    [id       |-> j.id,
     status   |-> "Pending",
     liveDate |-> toISODate(j.created),
     channels |-> [k \in ChannelSlugs |-> FALSE]]

\* isOn(jobId, slug): the toggle key holds true
isOn(jobId, slug) == <<jobId, slug>> \in toggleLS

CampaignAtRest ==
    /\ today = 0
    /\ jobRows = <<>>
    /\ toggleLS = {}

\* adaptFromJobsInCare(raw, knownChannels)
AdaptFromJobsInCare(raw) ==
    /\ jobRows' = [i \in DOMAIN raw |-> JobRowOf(raw[i])]
    /\ UNCHANGED <<today, toggleLS, callVars, fnVars, publishVars, restVars>>

\* onChange of a toggle of the jobs table: setOn(jobId, slug, v)
SetOn(jobId, slug, v) ==
    /\ \E i \in DOMAIN jobRows : jobRows[i].id = jobId
    /\ toggleLS' = IF v THEN toggleLS \cup {<<jobId, slug>>} ELSE toggleLS \ {<<jobId, slug>>}
    /\ UNCHANGED <<today, jobRows, callVars, fnVars, publishVars, restVars>>

\* midnight passes
NextDay ==
    /\ today < MaxDay
    /\ today' = today + 1
    /\ UNCHANGED <<jobRows, toggleLS, callVars, fnVars, publishVars, restVars>>

(***************************************************************************)
(* The publish server: location overrides and publish toggles              *)
(***************************************************************************)

Kent == <<"K","e","n","t">>

\* AREAS_CACHE: the tokens of areas.csv, trimmed, de-duplicated and sorted
AREAS_CACHE == <<Ayrshire, Kent>>

\* AREAS_CACHE.find(a => a.token.toLowerCase() === area.toLowerCase()): the index
\* of the first such area, 0 when there is none
FindArea(area) ==
    LET hits == {i \in DOMAIN AREAS_CACHE : ToLowerCase(AREAS_CACHE[i]) = ToLowerCase(area)}
    IN  IF hits = {} THEN 0 ELSE CHOOSE i \in hits : \A j \in hits : i <= j

\* {} : the fallback readJson returns for a file it cannot read
NoOverrides == <<>>

\* readOverrides(): the stored object, the fallback when reading or parsing fails
readOverrides(readOk) == IF readOk THEN overrides ELSE NoOverrides

\* overrides[jobId]?.areaToken is truthy
HasAreaToken(o, jobId) == jobId \in DOMAIN o /\ o[jobId] # <<>>

Request(route, jobId, arg, active) ==
    [route |-> route, jobId |-> jobId, arg |-> arg, active |-> active]

Response(status, body) == [status |-> status, body |-> body]

NoRequest == Request("none", Null, Null, FALSE)

PublishAtRest ==
    /\ overrides = NoOverrides
    /\ byChannel = <<>>
    /\ request = NoRequest
    /\ response = Response(0, <<>>)

\* The text as submitted in place of the list's token
StoredToken_AsTyped(area) == area

\* the token stored for a job: exists.token
StoredToken(area) == AREAS_CACHE[FindArea(area)]

\* app.post("/api/jobs/:jobId/location"); readOk and writeOk say whether the read
\* and the write of location-overrides.json succeed
PostLocation(jobIdParam, areaBody, readOk, writeOk) ==
    LET jobId == IF Falsy(jobIdParam) THEN <<>> ELSE Trim(jobIdParam)
        area  == IF Falsy(areaBody) THEN <<>> ELSE Trim(areaBody)
    IN  /\ request' = Request("location", jobIdParam, areaBody, FALSE)
        /\ IF jobId = <<>>
           THEN /\ response' = Response(400, "missing_jobId")
                /\ overrides' = overrides
           ELSE IF area = <<>>
           THEN /\ response' = Response(400, "missing_area")
                /\ overrides' = overrides
           ELSE IF FindArea(area) = 0
           THEN /\ response' = Response(400, "area_not_found")
                /\ overrides' = overrides
           ELSE LET current == readOverrides(readOk)
                    next    == [k \in DOMAIN current \cup {jobId} |->
                                   IF k = jobId THEN StoredToken(area) ELSE current[k]]
                IN  IF writeOk
                    THEN /\ overrides' = next
                         /\ response' = Response(200, StoredToken(area))
                    ELSE /\ overrides' = overrides
                         /\ response' = Response(500, "persist_failed")
        /\ UNCHANGED <<byChannel, callVars, fnVars, campaignVars, restVars>>

\* app.post("/api/publish/toggle")
PostToggle(jobId, channelId, active, readOk) ==
    /\ request' = Request("toggle", jobId, channelId, active)
    /\ IF Falsy(jobId) \/ Falsy(channelId)
       THEN /\ response' = Response(400, "missing_params")
            /\ byChannel' = byChannel
       ELSE IF active /\ ~HasAreaToken(readOverrides(readOk), jobId)
       THEN /\ response' = Response(400, "Select a valid area first")
            /\ byChannel' = byChannel
       ELSE LET old == IF channelId \in DOMAIN byChannel THEN byChannel[channelId] ELSE {}
            IN  /\ byChannel' = [c \in DOMAIN byChannel \cup {channelId} |->
                                    IF c # channelId THEN byChannel[c]
                                    ELSE IF active THEN old \cup {jobId} ELSE old \ {jobId}]
                /\ response' = Response(200, "ok")
    /\ UNCHANGED <<overrides, callVars, fnVars, campaignVars, restVars>>

\* req.params.jobId
LocationJobIds == {<<" ">>, <<"1","0","1">>, <<" ","1","0","2"," ">>}

\* jobId of a toggle body
ToggleJobIds == {Null, <<"1","0","1">>, <<"1","0","2">>}

\* req.body.area
AreaInputs ==
    {Null, <<" ">>, <<" ","k","e","n","t"," ">>, <<"A","Y","R","S","H","I","R","E">>, <<"E","s","s","e","x">>}

\* channelId of a toggle body
ChannelIdInputs == {Null, <<"f","a","c","e","b","o","o","k">>, <<"g","o","o","g","l","e">>}

(***************************************************************************)
(* The Job Campaigns table and GET /api/jobs of the publish server         *)
(***************************************************************************)

\* a job as the upstream lists it and as the publish server serves it
TableJob(id, locationStatus, areaToken) ==
    [id |-> id, locationStatus |-> locationStatus, areaToken |-> areaToken]

\* json.jobs of the upstream: up to MaxJobs jobs in the order of their ids;
\* locationStatus is "" when the upstream sends none
UpstreamJobLists ==
    LET choices == {TableJob(id, st, tk) :
                       id \in {<<"1","0","1">>, <<"1","0","2">>},
                       st \in {"", "valid"},
                       tk \in {Null, Kent}}
    IN  {list \in UNION {[1..n -> choices] : n \in 0..MaxJobs} :
            \A i, j \in DOMAIN list : i < j => StrLess(list[i].id, list[j].id)}

\* minimalLocationStatus(job, overrides)
minimalLocationStatus(job, o) ==
    IF HasAreaToken(o, job.id) THEN "valid"
    ELSE IF job.locationStatus \in {"valid", "missing", "suggested"} THEN job.locationStatus
    ELSE "missing"

\* the loop of GET /api/jobs over one job
MergeOverride(job, o) ==
    IF HasAreaToken(o, job.id)
    THEN [job EXCEPT !.areaToken = o[job.id], !.locationStatus = "valid"]
    ELSE [job EXCEPT !.locationStatus = minimalLocationStatus(job, o)]

\* isAreaValid(j) of the table
isAreaValid(j) == j.locationStatus = "valid" /\ ~Falsy(j.areaToken)

TableAtRest == tableJobs = <<>>

\* loadStateAndJobs: GET /api/jobs of the publish server, which merges the saved
\* overrides into the upstream's jobs, then setJobs(j2.jobs || [])
LoadJobs(list, upstreamOk, readOk) ==
    /\ request' = Request("jobs", Null, Null, FALSE)
    /\ IF upstreamOk
       THEN /\ response' = Response(200, "jobs")
            /\ tableJobs' = [i \in DOMAIN list |-> MergeOverride(list[i], readOverrides(readOk))]
       ELSE /\ response' = Response(502, "upstream_failed")
            /\ tableJobs' = <<>>
    /\ UNCHANGED <<overrides, byChannel, callVars, fnVars, campaignVars, geoVars, pagerVars, feedVars>>

\* A click on the switch of row i under a channel: nothing when the switch is
\* disabled, else doToggle(j.id, c.id, !checked), that is POST /api/publish/toggle
ClickSwitch(i, channelId, readOk) ==
    /\ i \in DOMAIN tableJobs
    /\ isAreaValid(tableJobs[i])
    /\ LET checked == channelId \in DOMAIN byChannel /\ tableJobs[i].id \in byChannel[channelId]
       IN  PostToggle(tableJobs[i].id, channelId, ~checked, readOk)

(***************************************************************************)
(* The MySQL adapter of the feeds: ensurePool, getDistrictsByCounty,       *)
(* getByDistrictPrefix (server.js)                                         *)
(***************************************************************************)

\* pools the adapter may create
MaxGeoPools == 2

\* the concurrent callers of the adapter
Callers == {"c1", "c2"}

\* os_open_names as the adapter finds it
GeoTable ==
    { NameRow(KA10, Ayrshire, Null, Null),
      NameRow(<<"k","a","1","0">>, <<"N","o","r","t","h"," ","A","y","r","s","h","i","r","e">>, Null, Null),
      NameRow(G64, <<"G","6","4"," ","1","A","B">>, Null, Ayrshire) }

\* countyLike and prefix
GeoInputs == {Null, <<" ">>, Ayrshire, <<"a","y","r","%">>, <<" ","k","a"," ">>}

\* what a call has returned: nothing yet, a list, or a rejected promise
GeoReturn(kind, rows) == [kind |-> kind, rows |-> rows]

\* a caller: where its call is, the function and argument, the pool ensurePool
\* handed it (p), the pool it created and is checking (own), the state of its
\* query and what the call returned
CallerIdle ==
    [pc |-> "idle", fn |-> "none", arg |-> Null, p |-> 0, own |-> 0,
     query |-> "none", ret |-> GeoReturn("none", <<>>)]

GeoAtRest ==
    /\ pool = 0
    /\ poolState = <<>>
    /\ callers = [c \in Callers |-> CallerIdle]

\* countyLike.includes("%") ? countyLike.trim() : `%${countyLike.trim()}%`
Needle(countyLike) ==
    IF \E i \in DOMAIN countyLike : countyLike[i] = "%"
    THEN Trim(countyLike)
    ELSE <<"%">> \o Trim(countyLike) \o <<"%">>

\* getDistrictsByCounty's query and its rows.map: the districts of the rows whose
\* county matches the needle, one of each, in order, upper-cased
DistrictsByCounty(countyLike) ==
    LET hit == {r.outcode : r \in {x \in names :
                    x.county # Null /\ LikeMatch(ToUpperCase(x.county), ToUpperCase(Needle(countyLike)))}}
    IN  SortStrings({ToUpperCase(o) : o \in hit})

\* the orders in which a query without ORDER BY may list a set of rows
RowOrders(S) ==
    {seq \in [1..Cardinality(S) -> S] : \A i, j \in 1..Cardinality(S) : seq[i] = seq[j] => i = j}

\* getByDistrictPrefix's query: the rows whose district starts with the prefix
RowsByDistrictPrefix(prefix) ==
    {r \in names : r.outcode # Null
                   /\ LikeMatch(ToUpperCase(r.outcode), ToUpperCase(Trim(prefix)) \o <<"%">>)}

\* !countyLike || !countyLike.trim()
BlankArg(arg) == Falsy(arg) \/ Trim(arg) = <<>>

\* The shared pool left in place after its connectivity check failed
PoolAfterFailedCheck_Kept(n) == n

\* catch (e) { pool = null; return null; }
PoolAfterFailedCheck(n) == 0

\* The rest of getDistrictsByCounty / getByDistrictPrefix once ensurePool has
\* answered p: no pool or a blank argument returns [], else the query is sent
AfterEnsure(cr, p) ==
    IF p = 0 \/ BlankArg(cr.arg)
    THEN [cr EXCEPT !.pc = "done", !.p = p, !.own = 0, !.ret = GeoReturn("list", <<>>)]
    ELSE [cr EXCEPT !.pc = "query", !.p = p, !.own = 0, !.query = "sent"]

\* A call begins: ensurePool returns the shared pool when there is one, else
\* creates a pool, stores it in the shared variable and awaits its check
GeoCall(c, fn, arg) ==
    /\ callers[c].pc = "idle"
    /\ LET cr == [CallerIdle EXCEPT !.fn = fn, !.arg = arg]
       IN  IF pool # 0
           THEN /\ callers' = [callers EXCEPT ![c] = AfterEnsure(cr, pool)]
                /\ UNCHANGED <<pool, poolState>>
           ELSE /\ Len(poolState) < MaxGeoPools
                /\ poolState' = Append(poolState, "pending")
                /\ pool' = Len(poolState) + 1
                /\ callers' = [callers EXCEPT ![c] = [cr EXCEPT !.pc = "checking", !.own = Len(poolState) + 1]]
    /\ UNCHANGED <<callVars, fnVars, uiVars, pagerVars, feedVars, tableVars>>

\* getConnection and ping succeeded: return pool
EnsureCheckOk(c) ==
    /\ callers[c].pc = "checking"
    /\ poolState' = [poolState EXCEPT ![callers[c].own] = "ok"]
    /\ callers' = [callers EXCEPT ![c] = AfterEnsure(callers[c], pool)]
    /\ UNCHANGED <<pool, callVars, fnVars, uiVars, pagerVars, feedVars, tableVars>>

\* getConnection or ping failed: pool = null; return null
EnsureCheckFails(c) ==
    /\ callers[c].pc = "checking"
    /\ poolState' = [poolState EXCEPT ![callers[c].own] = "failed"]
    /\ pool' = PoolAfterFailedCheck(callers[c].own)
    /\ callers' = [callers EXCEPT ![c] = AfterEnsure(callers[c], 0)]
    /\ UNCHANGED <<callVars, fnVars, uiVars, pagerVars, feedVars, tableVars>>

\* p.query answers
GeoQueryAnswers(c) ==
    /\ callers[c].pc = "query"
    /\ \E rows \in IF callers[c].fn = "getDistrictsByCounty"
                   THEN {DistrictsByCounty(callers[c].arg)}
                   ELSE RowOrders(RowsByDistrictPrefix(callers[c].arg)) :
          callers' = [callers EXCEPT ![c] =
                         [@ EXCEPT !.pc = "done", !.query = "answered", !.ret = GeoReturn("list", rows)]]
    /\ UNCHANGED <<pool, poolState, callVars, fnVars, uiVars, pagerVars, feedVars, tableVars>>

\* p.query rejects: the catch returns []
GeoQueryFails(c) ==
    /\ callers[c].pc = "query"
    /\ callers' = [callers EXCEPT ![c] =
                      [@ EXCEPT !.pc = "done", !.query = "failed", !.ret = GeoReturn("list", <<>>)]]
    /\ UNCHANGED <<pool, poolState, callVars, fnVars, uiVars, pagerVars, feedVars, tableVars>>

\* the caller takes the result
GeoDone(c) ==
    /\ callers[c].pc = "done"
    /\ callers' = [callers EXCEPT ![c] = CallerIdle]
    /\ UNCHANGED <<pool, poolState, callVars, fnVars, uiVars, pagerVars, feedVars, tableVars>>

(***************************************************************************)
(* ApiClient.fetchPagedJobs (lib/api.ts)                                   *)
(***************************************************************************)

\* the largest maxPages a call is made with
MaxMaxPages == 3

\* the most jobs a page carries
MaxChunk == 2

\* a field the response does not have
Absent == 0 - 1

\* What a GET answers: ok is res.ok with a body that parses; body is "object" for
\* a JSON object and "falsy" for null, 0, false or ""; jobs is the length of
\* raw.jobs (0 when it is no array), perPage and these the fields perPage and
\* theseJobsCount
PageResponse(ok, body, jobs, perPage, these) ==
    [ok |-> ok, body |-> body, jobs |-> jobs, perPage |-> perPage, these |-> these]

\* this.get throws, and raw stays null
GetFails == PageResponse(FALSE, "none", 0, Absent, Absent)

\* the answers of the upstream: a failure, a falsy body, or a page whose
\* theseJobsCount, when given, is the number of jobs it carries
PageResponses ==
    {GetFails, PageResponse(TRUE, "falsy", 0, Absent, Absent)}
    \cup UNION {{PageResponse(TRUE, "object", n, pp, t) : pp \in {Absent, MaxChunk}, t \in {Absent, n}} :
                   n \in 0..MaxChunk}

\* raw is truthy
Truthy(raw) == raw.ok /\ raw.body = "object"

\* Number(field ?? chunk.length)
NumberOr(field, length) == IF field = Absent THEN length ELSE field

\* one request as the log keeps it
LogEntry(style, page, r) ==
    [style |-> style, page |-> page, ok |-> r.ok, jobs |-> r.jobs, perPage |-> r.perPage]

PagerAtRest ==
    /\ pgPc = "idle"
    /\ pgMaxPages = 0
    /\ pgPage = 1
    /\ pgMode = "unknown"
    /\ pgAll = 0
    /\ pgLog = <<>>

\* The page style tried whatever the mode
TryPageStyle_Always(raw, mode) == ~Truthy(raw)

\* !raw && (mode === "unknown" || mode === "page")
TryPageStyle(raw, mode) == ~Truthy(raw) /\ mode \in {"unknown", "page"}

\* fetchPagedJobs(maxPages): const all = []; let page = 1; let mode = "unknown"
StartFetch(maxPages) ==
    /\ pgPc = "idle"
    /\ pgMaxPages' = maxPages
    /\ pgPage' = 1
    /\ pgMode' = "unknown"
    /\ pgAll' = 0
    /\ pgLog' = <<>>
    /\ pgPc' = IF 1 <= maxPages THEN "loop" ELSE "done"
    /\ UNCHANGED <<callVars, fnVars, uiVars, geoVars, feedVars, tableVars>>

\* One turn of the while loop: r1 answers the pageNumber request and r2 the page
\* request, when they are made
FetchPage(r1, r2) ==
    /\ pgPc = "loop"
    /\ pgPage <= pgMaxPages
    /\ LET try1  == pgMode \in {"unknown", "pageNumber"}
           raw1  == IF try1 /\ r1.ok THEN r1 ELSE GetFails
           mode1 == IF try1 /\ r1.ok THEN "pageNumber" ELSE pgMode
           try2  == TryPageStyle(raw1, mode1)
           raw   == IF try2 /\ r2.ok THEN r2 ELSE raw1
           mode2 == IF try2 /\ r2.ok THEN "page" ELSE mode1
           sent  == (IF try1 THEN <<LogEntry("pageNumber", pgPage, r1)>> ELSE <<>>)
                    \o (IF try2 THEN <<LogEntry("page", pgPage, r2)>> ELSE <<>>)
           chunk == raw.jobs
           perPage == NumberOr(raw.perPage, chunk)
           these == NumberOr(raw.these, chunk)
       IN  /\ pgLog' = pgLog \o sent
           /\ pgMode' = mode2
           /\ IF ~Truthy(raw) \/ chunk = 0
              THEN /\ pgPc' = "done"
                   /\ UNCHANGED <<pgAll, pgPage>>
              ELSE /\ pgAll' = pgAll + chunk
                   /\ IF these < perPage
                      THEN /\ pgPc' = "done"
                           /\ UNCHANGED pgPage
                      ELSE /\ pgPage' = pgPage + 1
                           /\ pgPc' = IF pgPage + 1 <= pgMaxPages THEN "loop" ELSE "done"
    /\ UNCHANGED <<pgMaxPages, callVars, fnVars, uiVars, geoVars, feedVars, tableVars>>

\* return all
FetchReturn ==
    /\ pgPc = "done"
    /\ pgPc' = "idle"
    /\ UNCHANGED <<pgMaxPages, pgPage, pgMode, pgAll, pgLog, callVars, fnVars, uiVars, geoVars, feedVars, tableVars>>

(***************************************************************************)
(* The feeds server (server.js)                                            *)
(***************************************************************************)

\* jobs the upstream may list
MaxFeedJobs == 2

\* isLive: d >= 0 && d <= 42, the 6 weeks window of the feeds
FeedWindowDays == 42

\* the string literals of the feeds server
Str ==
    [google |-> <<"g","o","o","g","l","e">>,
     tiktok |-> <<"t","i","k","t","o","k">>,
     xml    |-> <<"x","m","l">>,
     json   |-> <<"j","s","o","n">>,
     user   |-> <<"u","s","e","r">>]

\* The time zone of the server process: whether it has summer time and, if so,
\* the first date whose UTC midnight falls in it, when local clocks are one hour
\* ahead.  Dates are day numbers, as in the campaign rows.
ServerZones ==
    { [name |-> "UTC", summer |-> FALSE, from |-> 0],
      [name |-> "Europe/London", summer |-> TRUE, from |-> 0] }

\* hours the local clock is ahead of UTC at UTC midnight of a date
HoursAhead(zone, date) == IF zone.summer /\ date >= zone.from THEN 1 ELSE 0

\* new Date(iso); setHours(0,0,0,0); getTime(), in hours: the local midnight of the
\* local date that UTC midnight of the date falls on
LocalMidnight(zone, date) == 24 * date - HoursAhead(zone, date)

\* A date is a day number in a one-element sequence and <<>> when it is missing.
\* A value that is no date ("" from toISODate, NaN in daysBetween) is told from
\* both by its length.
NoDate == <<0, 0>>

\* todayISO(): local midnight of today, as a UTC date
todayISO(zone) == IF HoursAhead(zone, today) > 0 THEN today - 1 ELSE today

\* toISODate(input, fallbackToday) of the server: the UTC date of the input; with
\* no input or one that is no date, todayISO() or ""
ServerISODate(zone, input, fallbackToday) ==
    IF input = <<>> \/ input = NoDate
    THEN (IF fallbackToday THEN <<todayISO(zone)>> ELSE NoDate)
    ELSE input

\* isLive(eligibleISO, asOfISO) with daysBetween: whole days of 86400000 ms between
\* the two local midnights; nothing is live as of no date
isLive(zone, eligibleISO, asOfISO) ==
    IF eligibleISO = NoDate \/ asOfISO = NoDate THEN FALSE
    ELSE LET d == (LocalMidnight(zone, asOfISO[1]) - LocalMidnight(zone, eligibleISO[1])) \div 24
         IN  d >= 0 /\ d <= FeedWindowDays

\* a job of the upstream payload: created is a date, <<>> when missing; source a
\* string, Null when missing
FeedJob(created, source) == [created |-> created, source |-> source]

FeedJobChoices ==
    {FeedJob(c, s) : c \in {<<>>, <<0 - 43>>, <<0 - 42>>, <<1>>},
                     s \in {Null, <<"U","s","e","r">>, <<"f","e","e","d">>}}

\* SAMPLE_API_PAYLOAD: jobs of source "user" created long ago
SAMPLE_API_PAYLOAD == <<FeedJob(<<0 - 60>>, Str.user), FeedJob(<<0 - 61>>, Str.user)>>

\* adaptFromJobsInCare(raw) of the server
ServerAdapt(zone, list) ==
    [i \in DOMAIN list |->
        [id           |-> i,
         eligibleDate |-> ServerISODate(zone, list[i].created, TRUE),
         source       |-> IF Falsy(list[i].source) THEN Str.user ELSE list[i].source]]

\* fetchJobsFromUpstream(endpoint): the sample payload when the fetch fails
fetchJobsFromUpstream(zone, fetchOk) ==
    ServerAdapt(zone, IF fetchOk THEN upstream ELSE SAMPLE_API_PAYLOAD)

\* settings.json: global.sourceFilter, global.outputFormat and channels[id].feedFormat
Settings(sourceFilter, outputFormat, googleFormat, tiktokFormat) ==
    [sourceFilter |-> sourceFilter, outputFormat |-> outputFormat,
     channels |-> [c \in {Str.google, Str.tiktok} |-> IF c = Str.google THEN googleFormat ELSE tiktokFormat]]

DEFAULT_SETTINGS == Settings(Str.user, Str.json, Str.json, Str.xml)

\* bodies posted to /api/admin/settings
SettingsChoices ==
    {Settings(sf, of, gf, Str.xml) :
        sf \in {<<>>, Str.user, <<" ","U","S","E","R"," ">>},
        of \in {Null, ToUpperCase(Str.xml)},
        gf \in {Null, Str.json, Str.xml}}

\* a || b
OrElse(a, b) == IF Falsy(a) THEN b ELSE a

\* elements of a sequence that satisfy a test, in order
RECURSIVE SelectLive(_, _, _)
SelectLive(zone, list, asOf) ==
    IF list = <<>> THEN <<>>
    ELSE (IF isLive(zone, Head(list).eligibleDate, asOf) THEN <<Head(list)>> ELSE <<>>)
         \o SelectLive(zone, Tail(list), asOf)

RECURSIVE SelectSource(_, _)
SelectSource(list, sourceFilter) ==
    IF list = <<>> THEN <<>>
    ELSE (IF ToLowerCase(Head(list).source) = ToLowerCase(sourceFilter) THEN <<Head(list)>> ELSE <<>>)
         \o SelectSource(Tail(list), sourceFilter)

\* the source filter and the live window, as both routes apply them
LiveJobs(zone, all, asOf) ==
    LET sourceFilter == Trim(OrElse(settings.sourceFilter, <<>>))
        filteredBySource == IF sourceFilter # <<>> THEN SelectSource(all, sourceFilter) ELSE all
    IN  SelectLive(zone, filteredBySource, asOf)

\* the first dot of a path segment that has text on both sides, 0 when none
FirstDot(segment) ==
    LET at == {i \in 2..(Len(segment) - 1) : segment[i] = "."}
    IN  IF at = {} THEN 0 ELSE CHOOSE i \in at : \A j \in at : i <= j

\* The routes in the order they are registered: /api/feeds/:channelId, whose
\* parameter takes the whole segment and whose handler passes ext = "", then
\* /api/feeds/:channelId.:ext.  The first route that matches serves the request.
RouteFeed(segment) ==
    IF segment # <<>>
    THEN [channelId |-> segment, ext |-> <<>>]
    ELSE IF FirstDot(segment) > 0
    THEN [channelId |-> SubSeq(segment, 1, FirstDot(segment) - 1),
          ext       |-> SubSeq(segment, FirstDot(segment) + 1, Len(segment))]
    ELSE [channelId |-> Null, ext |-> Null]

\* the segments requested under /api/feeds/
FeedSegments ==
    { Str.google, Str.google \o <<".">> \o Str.xml, Str.tiktok, Str.tiktok \o <<".">> \o Str.json,
      <<"b","i","n","g",".","X","M","L">> }

\* ?format=
FormatInputs == {Null, ToUpperCase(Str.xml), <<"c","s","v">>}

\* ?asOf=
AsOfInputs == {<<>>, <<0 - 1>>, NoDate}

\* what a request read and was asked: the route, the path segment, ?format=, ?asOf=
\* and the settings as read
FeedRequest(route, segment, format, asOf, read) ==
    [route |-> route, segment |-> segment, format |-> format, asOf |-> asOf, settings |-> read]

\* the response: its format, the channel it names, the asOf it used and its jobs
FeedResponse(format, channel, asOf, jobs) ==
    [format |-> format, channel |-> channel, asOf |-> asOf, jobs |-> jobs]

\* settings.json as ensureSettingsFile writes it, no job upstream, no request yet
FeedIdle ==
    /\ upstream = <<>>
    /\ settings = DEFAULT_SETTINGS
    /\ feedRequest = FeedRequest("none", <<>>, Null, <<>>, DEFAULT_SETTINGS)
    /\ feedResponse = FeedResponse("none", Null, NoDate, <<>>)

FeedAtRest ==
    /\ serverZone \in {z \in ServerZones : ~z.summer}
    /\ FeedIdle

RestAtRest == GeoAtRest /\ PagerAtRest /\ FeedAtRest /\ TableAtRest

\* a job is posted on the upstream board
UpstreamPosts(job) ==
    /\ Len(upstream) < MaxFeedJobs
    /\ upstream' = Append(upstream, job)
    /\ UNCHANGED <<serverZone, settings, feedRequest, feedResponse,
                   callVars, fnVars, uiVars, geoVars, pagerVars, tableVars>>

\* POST /api/admin/settings with a body that has global and channels
PostSettings(body) ==
    /\ settings' = body
    /\ UNCHANGED <<serverZone, upstream, feedRequest, feedResponse,
                   callVars, fnVars, uiVars, geoVars, pagerVars, tableVars>>

\* toISODate(req.query.asOf || new Date())
RequestAsOf(zone, asOf) == ServerISODate(zone, IF asOf = <<>> THEN <<today>> ELSE asOf, FALSE)

\* GET /api/jobs
GetJobs(asOf, fetchOk) ==
    /\ LET all == fetchJobsFromUpstream(serverZone, fetchOk)
           on  == RequestAsOf(serverZone, asOf)
       IN  /\ feedRequest' = FeedRequest("jobs", <<>>, Null, asOf, settings)
           /\ feedResponse' = FeedResponse("json", Null, on, LiveJobs(serverZone, all, on))
    /\ UNCHANGED <<serverZone, upstream, settings, callVars, fnVars, uiVars, geoVars, pagerVars, tableVars>>

\* ch.feedFormat of settings.channels[channelId] || {}
ChannelFormat(channelId) ==
    IF channelId \in DOMAIN settings.channels THEN settings.channels[channelId] ELSE Null

\* GET /api/feeds/<segment>: the route found, then handleFeed
GetFeed(segment, format, asOf, fetchOk) ==
    /\ LET route   == RouteFeed(segment)
           all     == fetchJobsFromUpstream(serverZone, fetchOk)
           on      == RequestAsOf(serverZone, asOf)
           qFormat == ToLowerCase(OrElse(format, <<>>))
           pick    == ToLowerCase(OrElse(route.ext, OrElse(qFormat,
                          OrElse(ChannelFormat(route.channelId), OrElse(settings.outputFormat, Str.json)))))
       IN  /\ feedRequest' = FeedRequest("feed", segment, format, asOf, settings)
           /\ feedResponse' = FeedResponse(IF pick = Str.xml THEN "xml" ELSE "json", route.channelId, on,
                                           LiveJobs(serverZone, all, on))
    /\ UNCHANGED <<serverZone, upstream, settings, callVars, fnVars, uiVars, geoVars, pagerVars, tableVars>>

(***************************************************************************)
(* resolveTargeting, step by step                                          *)
(***************************************************************************)

Init ==
    /\ names \in NameTables
    /\ stats \in StatsTables
    /\ pc = "idle"
    /\ jobLocation = Null
    /\ poolsCreated = 0
    /\ expanded = <<>>
    /\ queries = <<>>
    /\ result = NoResult
    /\ fnInput = Null
    /\ fnName = "none"
    /\ fnResult = NoMatch
    /\ CampaignAtRest
    /\ PublishAtRest
    /\ RestAtRest

\* resolveTargeting(loc, opts) up to its first query.  const pool = opts.pool ||
\* (await makePool()): a call without opts.pool creates a pool.  Then the input is
\* classified; a full postcode sends the stats query, area text sends the
\* expansion query, anything else returns at once.
Call(loc, withPool) ==
    /\ pc = "idle"
    /\ withPool \/ poolsCreated < MaxPools
    /\ poolsCreated' = IF withPool THEN poolsCreated ELSE poolsCreated + 1
    /\ jobLocation' = loc
    /\ expanded' = <<>>
    /\ IF IsFullPostcode(loc)
       THEN /\ pc' = "statsPC"
            /\ queries' = StatsQuery(<<extractOutcodeFromPostcode(loc)>>)
            /\ result' = NoResult
       ELSE IF IsAreaText(loc)
       THEN /\ pc' = "expand"
            /\ queries' = <<ExpandQuery(Trim(loc))>>
            /\ result' = NoResult
       ELSE /\ pc' = "done"
            /\ queries' = <<>>
            /\ result' = ResultObject(<<>>, <<>>)
    /\ UNCHANGED <<names, stats, fnVars, uiVars, restVars>>

\* The stats query of the full-postcode branch answers: the outcode is pushed
\* whether or not it has a stats row
StatsForPostcode ==
    /\ pc = "statsPC"
    /\ LET outcodeFromPC == extractOutcodeFromPostcode(jobLocation)
           map           == fetchOutcodeStats(<<outcodeFromPC>>)
       IN  result' = ResultObject(<<outcodeFromPC>>, StatsListOf(<<outcodeFromPC>>, map))
    /\ pc' = "done"
    /\ UNCHANGED <<names, stats, jobLocation, poolsCreated, expanded, queries, fnVars, uiVars, restVars>>

\* The expansion query answers; with rows the stats query follows, without the
\* call returns the empty result
Expand ==
    /\ pc = "expand"
    /\ \E rows \in expandAreaToOutcodes(Trim(jobLocation)) :
          /\ expanded' = rows
          /\ IF rows # <<>>
             THEN /\ pc' = "statsArea"
                  /\ queries' = queries \o StatsQuery(rows)
                  /\ result' = NoResult
             ELSE /\ pc' = "done"
                  /\ queries' = queries
                  /\ result' = ResultObject(<<>>, <<>>)
    /\ UNCHANGED <<names, stats, jobLocation, poolsCreated, fnVars, uiVars, restVars>>

\* The stats query of the area branch answers
StatsForArea ==
    /\ pc = "statsArea"
    /\ result' = ResultObject(expanded, StatsListOf(expanded, fetchOutcodeStats(expanded)))
    /\ pc' = "done"
    /\ UNCHANGED <<names, stats, jobLocation, poolsCreated, expanded, queries, fnVars, uiVars, restVars>>

\* pool.execute rejects (dataset unreachable, query error).  Nothing in
\* expandAreaToOutcodes, fetchOutcodeStats or resolveTargeting catches it, so the
\* promise of resolveTargeting rejects.
QueryFails ==
    /\ pc \in {"statsPC", "expand", "statsArea"}
    /\ result' = Rejected
    /\ pc' = "done"
    /\ UNCHANGED <<names, stats, jobLocation, poolsCreated, expanded, queries, fnVars, uiVars, restVars>>

\* The caller takes the settled promise
Return ==
    /\ pc = "done"
    /\ pc' = "idle"
    /\ jobLocation' = Null
    /\ expanded' = <<>>
    /\ queries' = <<>>
    /\ result' = NoResult
    /\ UNCHANGED <<names, stats, poolsCreated, fnVars, uiVars, restVars>>

Next ==
    \/ \E loc \in Locations, withPool \in BOOLEAN : Call(loc, withPool)
    \/ StatsForPostcode
    \/ Expand
    \/ StatsForArea
    \/ QueryFails
    \/ Return

Spec == Init /\ [][Next]_vars

(***************************************************************************)
(* The two postcode helpers called on their own                            *)
(***************************************************************************)

InitFn ==
    /\ names = {}
    /\ stats = {}
    /\ pc = "idle"
    /\ jobLocation = Null
    /\ poolsCreated = 0
    /\ expanded = <<>>
    /\ queries = <<>>
    /\ result = NoResult
    /\ fnInput = Null
    /\ fnName = "none"
    /\ fnResult = NoMatch
    /\ CampaignAtRest
    /\ PublishAtRest
    /\ RestAtRest

CallExtract(input) ==
    /\ fnInput' = input
    /\ fnName' = "extractOutcodeFromPostcode"
    /\ fnResult' = extractOutcodeFromPostcode(input)
    /\ UNCHANGED <<callVars, uiVars, restVars>>

CallDerive(input) ==
    /\ fnInput' = input
    /\ fnName' = "deriveOutcodeFromPostcode"
    /\ fnResult' = deriveOutcodeFromPostcode(input)
    /\ UNCHANGED <<callVars, uiVars, restVars>>

NextFn ==
    \/ \E input \in HelperInputs : CallExtract(input)
    \/ \E input \in HelperInputs : CallDerive(input)

SpecFn == InitFn /\ [][NextFn]_vars

(***************************************************************************)
(* The campaign rows and the publish server on their own                   *)
(***************************************************************************)

\* no call of the resolver or of its helpers is under way
ResolverAtRest ==
    /\ names = {}
    /\ stats = {}
    /\ pc = "idle"
    /\ jobLocation = Null
    /\ poolsCreated = 0
    /\ expanded = <<>>
    /\ queries = <<>>
    /\ result = NoResult
    /\ fnInput = Null
    /\ fnName = "none"
    /\ fnResult = NoMatch

InitCampaign == ResolverAtRest /\ CampaignAtRest /\ PublishAtRest /\ RestAtRest

NextCampaign ==
    \/ \E raw \in RawJobLists : AdaptFromJobsInCare(raw)
    \/ \E jobId \in JobIds, slug \in ChannelSlugs, v \in BOOLEAN : SetOn(jobId, slug, v)
    \/ NextDay

SpecCampaign == InitCampaign /\ [][NextCampaign]_vars

InitPublish == ResolverAtRest /\ CampaignAtRest /\ PublishAtRest /\ RestAtRest

NextPublish ==
    \/ \E jobId \in LocationJobIds, area \in AreaInputs, readOk \in BOOLEAN, writeOk \in BOOLEAN :
          PostLocation(jobId, area, readOk, writeOk)
    \/ \E jobId \in ToggleJobIds, channelId \in ChannelIdInputs, active \in BOOLEAN, readOk \in BOOLEAN :
          PostToggle(jobId, channelId, active, readOk)

SpecPublish == InitPublish /\ [][NextPublish]_vars

InitGeo ==
    /\ names = GeoTable
    /\ stats = {}
    /\ pc = "idle"
    /\ jobLocation = Null
    /\ poolsCreated = 0
    /\ expanded = <<>>
    /\ queries = <<>>
    /\ result = NoResult
    /\ fnInput = Null
    /\ fnName = "none"
    /\ fnResult = NoMatch
    /\ CampaignAtRest
    /\ PublishAtRest
    /\ RestAtRest

NextGeo ==
    \/ \E c \in Callers, fn \in {"getDistrictsByCounty", "getByDistrictPrefix"}, arg \in GeoInputs :
          GeoCall(c, fn, arg)
    \/ \E c \in Callers : EnsureCheckOk(c)
    \/ \E c \in Callers : EnsureCheckFails(c)
    \/ \E c \in Callers : GeoQueryAnswers(c)
    \/ \E c \in Callers : GeoQueryFails(c)
    \/ \E c \in Callers : GeoDone(c)

SpecGeo == InitGeo /\ [][NextGeo]_vars

\* every component before its first request or call
InitAtRest == ResolverAtRest /\ CampaignAtRest /\ PublishAtRest /\ RestAtRest

NextPager ==
    \/ \E maxPages \in 0..MaxMaxPages : StartFetch(maxPages)
    \/ \E r1, r2 \in PageResponses : FetchPage(r1, r2)
    \/ FetchReturn

\* every request settles and the caller takes the result
SpecPager ==
    /\ InitAtRest
    /\ [][NextPager]_vars
    /\ WF_vars(\E r1, r2 \in PageResponses : FetchPage(r1, r2))
    /\ WF_vars(FetchReturn)

\* the feeds served from default dates and jobs, over the settings and the URLs
NextFeedFormat ==
    \/ \E body \in SettingsChoices : PostSettings(body)
    \/ \E segment \in FeedSegments, format \in FormatInputs : GetFeed(segment, format, <<>>, FALSE)

SpecFeedFormat == InitAtRest /\ [][NextFeedFormat]_vars

\* the jobs route and one feed, over the upstream jobs, the source filter, asOf and
\* the time zone of the server
InitFeedWindow ==
    /\ ResolverAtRest /\ CampaignAtRest /\ PublishAtRest
    /\ GeoAtRest /\ PagerAtRest /\ TableAtRest
    /\ serverZone \in ServerZones
    /\ FeedIdle

NextFeedWindow ==
    \/ \E job \in FeedJobChoices : UpstreamPosts(job)
    \/ \E body \in {s \in SettingsChoices : s.outputFormat = Null /\ s.channels[Str.google] = Str.json} : PostSettings(body)
    \/ \E asOf \in AsOfInputs, fetchOk \in BOOLEAN : GetJobs(asOf, fetchOk)
    \/ \E asOf \in AsOfInputs, fetchOk \in BOOLEAN : GetFeed(Str.google, Null, asOf, fetchOk)

SpecFeedWindow == InitFeedWindow /\ [][NextFeedWindow]_vars

NextTable ==
    \/ \E jobId \in {<<"1","0","1">>, <<"1","0","2">>}, readOk \in BOOLEAN, writeOk \in BOOLEAN :
          PostLocation(jobId, Kent, readOk, writeOk)
    \/ \E list \in UpstreamJobLists, upstreamOk \in BOOLEAN, readOk \in BOOLEAN :
          LoadJobs(list, upstreamOk, readOk)
    \/ \E i \in 1..MaxJobs, channelId \in ChannelIdInputs \ {Null}, readOk \in BOOLEAN :
          ClickSwitch(i, channelId, readOk)

SpecTable == InitAtRest /\ [][NextTable]_vars

(***************************************************************************)
(* Properties                                                              *)
(***************************************************************************)

\* The valid UK postcodes among the inputs: the common formats and GIR 0AA
ValidPostcodes == PostcodeForms \cup GirForms

\* The outcode part of a postcode: upper-cased, everything before the 3-character incode
OutcodePortion(p) ==
    LET u == RemoveSpaces(ToUpperCase(p))
    IN  SubSeq(u, 1, Len(u) - 3)

\* text matches the full-postcode pattern once trimmed and upper-cased
MatchesPostcodePattern(loc) ==
    loc # Null /\ OUTCODE_REGEX(ToUpperCase(Trim(loc))) # NoMatch

Returned == pc = "done" /\ result.kind = "ok"

\* C1: a call with a valid UK postcode, in either case and with or without the
\* separating space, returns postal_codes holding exactly the upper-cased outcode
\* part of the postcode.
C1_ValidPostcodeGivesItsOutcode ==
    (Returned /\ jobLocation \in ValidPostcodes)
        => result.postal_codes = <<OutcodePortion(jobLocation)>>

\* The inputs that are a bare outcode
BareOutcodes == {KA10, G64}

\* C2: a call with a bare outcode returns exactly that outcode, whatever the
\* reference table holds.
C2_BareOutcodeGivesItself ==
    (Returned /\ jobLocation \in BareOutcodes)
        => result.postal_codes = <<jobLocation>>

\* C3: resolveTargeting never rejects: a call that has settled has settled with a
\* result object.
C3_NeverRejects ==
    pc = "done" => result.kind = "ok"

\* The outcodes the reference table holds
TableOutcodes == {r.outcode : r \in names} \ {Null, <<>>}

\* out is a proper prefix of the trimmed, upper-cased input: the input cut short
TruncationOf(out, input) ==
    LET u == ToUpperCase(Trim(input))
    IN  \E k \in 1..(Len(u) - 1) : out = SubSeq(u, 1, k)

\* C4: no operation produces an outcode by truncating its input: when
\* extractOutcodeFromPostcode or deriveOutcodeFromPostcode returns its input cut
\* short, the input matches the full-postcode pattern and what is returned is its
\* outcode part; and an outcode resolveTargeting returns is that or a value of the
\* reference table.
C4_NoOutcodeByTruncation ==
    /\ (fnName # "none" /\ fnInput # Null /\ fnResult # NoMatch
           /\ TruncationOf(fnResult, fnInput))
          => /\ MatchesPostcodePattern(fnInput)
             /\ fnResult = OutcodePortion(fnInput)
    /\ Returned
          => \A i \in DOMAIN result.postal_codes :
                \/ result.postal_codes[i] \in TableOutcodes
                \/ /\ MatchesPostcodePattern(jobLocation)
                   /\ result.postal_codes[i] = OutcodePortion(jobLocation)

\* An outcode in normal form: upper case, no surrounding whitespace
Normalised(o) == o = ToUpperCase(Trim(o))

\* C5: every outcode of a result (postal_codes, coverage, platform lists) is in
\* normal form, and no two entries of postal_codes differ only in case or
\* surrounding whitespace.
C5_OutcodesNormalised ==
    Returned =>
        /\ \A i \in DOMAIN result.postal_codes : Normalised(result.postal_codes[i])
        /\ \A i \in DOMAIN result.coverage : Normalised(result.coverage[i].outcode)
        /\ \A i \in DOMAIN result.platform_serializations.tiktok_postal_codes :
              Normalised(result.platform_serializations.tiktok_postal_codes[i])
        /\ \A i, j \in DOMAIN result.postal_codes :
              ToUpperCase(Trim(result.postal_codes[i])) = ToUpperCase(Trim(result.postal_codes[j]))
                 => i = j

\* C6: a call whose input matches the full-postcode pattern never issues the
\* area-expansion query, and the postal_codes it returns is exactly the derived
\* outcode, whatever the reference rows contain.
C6_FullPostcodeWins ==
    (pc # "idle" /\ MatchesPostcodePattern(jobLocation)) =>
        /\ \A i \in DOMAIN queries : queries[i].kind # "expand"
        /\ expanded = <<>>
        /\ Returned => result.postal_codes = <<OutcodePortion(jobLocation)>>

\* C6 at work: "G64 1AB" returned G64 although a county of the table contains
\* the text "G64 1AB"
C6_Witness ==
    /\ Returned
    /\ jobLocation = <<"G","6","4"," ","1","A","B">>
    /\ \E r \in names : LikeConcat(r.county, jobLocation)
    /\ result.postal_codes = <<G64>>

\* field contains text as a substring, ignoring case
ContainsText(field, text) ==
    /\ field # Null
    /\ \E i \in 0..(Len(field) - Len(text)) :
          ToUpperCase(SubSeq(field, i + 1, i + Len(text))) = ToUpperCase(text)

\* The rows whose county, district or region contains the text
RowsContaining(text) ==
    {r \in names : \/ ContainsText(r.county, text)
                   \/ ContainsText(r.district, text)
                   \/ ContainsText(r.region, text)}

\* C7: for a non-blank input that is no full postcode, postal_codes is the
\* set of non-empty outcodes of the rows whose county, district or region
\* contains the trimmed text, each once (outcodes compared without regard to
\* case); none when no row matches.
C7_AreaGivesContainingRows ==
    (Returned /\ ~MatchesPostcodePattern(jobLocation) /\ jobLocation # Null
              /\ Trim(jobLocation) # <<>>) =>
        /\ {ToUpperCase(result.postal_codes[i]) : i \in DOMAIN result.postal_codes}
              = {ToUpperCase(o) :
                    o \in {r.outcode : r \in RowsContaining(Trim(jobLocation))} \ {Null, <<>>}}
        /\ \A i, j \in DOMAIN result.postal_codes :
              result.postal_codes[i] = result.postal_codes[j] => i = j

\* a null, undefined, empty or whitespace-only input
Blank(loc) == loc = Null \/ Trim(loc) = <<>>

\* C8: a call with a blank input settles at once with the empty result, having
\* issued no query.
C8_BlankGivesEmpty ==
    (pc # "idle" /\ Blank(jobLocation)) =>
        /\ Returned
        /\ result.postal_codes = <<>>
        /\ result.coverage = <<>>
        /\ queries = <<>>

\* C8 at work: a whitespace-only input returned the empty result
C8_Witness ==
    /\ Returned
    /\ jobLocation = <<" ", " ">>
    /\ result.postal_codes = <<>>
    /\ queries = <<>>

\* C9: at most one connection pool is ever created.
C9_AtMostOnePool ==
    poolsCreated <= 1

\* a stats column that holds a number
NumericColumn(x) == x.t \in {"num", "numstr"}

\* a finite non-negative number
FiniteNonNegative(x) == x.t = "num" /\ x.v >= 0

\* C10: every coverage entry has four finite non-negative numbers and comes from
\* a stats row whose four columns are numeric: a row with a null or non-numeric
\* column yields no entry.
C10_CoverageNumbersSound ==
    Returned =>
        \A i \in DOMAIN result.coverage :
            LET e == result.coverage[i]
            IN  /\ FiniteNonNegative(e.approx_radius_km)
                /\ FiniteNonNegative(e.approx_diameter_km)
                /\ FiniteNonNegative(e.centroid_easting_m)
                /\ FiniteNonNegative(e.centroid_northing_m)
                /\ \A r \in stats :
                      r.outcode = e.outcode =>
                          /\ NumericColumn(r.radius)
                          /\ NumericColumn(r.diameter)
                          /\ NumericColumn(r.easting)
                          /\ NumericColumn(r.northing)

\* C11: every coverage entry of a result is for an outcode of its postal_codes,
\* and fetchOutcodeStats of an empty list is the empty mapping.
C11_CoverageWithinRequested ==
    /\ Returned =>
          \A i \in DOMAIN result.coverage :
              \E j \in DOMAIN result.postal_codes :
                  result.coverage[i].outcode = result.postal_codes[j]
    /\ fetchOutcodeStats(<<>>) = <<>>

\* C11 at work: a result with coverage while the stats table holds a row for an
\* outcode that was not asked for
C11_Witness ==
    /\ Returned
    /\ result.coverage # <<>>
    /\ \E r \in stats : \A j \in DOMAIN result.postal_codes : r.outcode # result.postal_codes[j]

C13_PostalCodesSortedUnique ==
    Returned =>
        \A i, j \in DOMAIN result.postal_codes :
            i < j => StrLess(result.postal_codes[i], result.postal_codes[j])

\* C13 at work: the expansion answered in another order than the one returned
C13_Witness ==
    /\ Returned
    /\ Len(result.postal_codes) >= 2
    /\ expanded # result.postal_codes

\* the entries of list, each but the first preceded by a newline
RECURSIVE NewlineSeparated(_)
NewlineSeparated(list) ==
    IF list = <<>> THEN <<>>
    ELSE LET n == Len(list)
         IN  IF n = 1 THEN list[1]
             ELSE NewlineSeparated(SubSeq(list, 1, n - 1)) \o <<"\n">> \o list[n]

\* C14: platform_serializations is determined by postal_codes: meta_bulk_text is
\* postal_codes joined by newlines and the four platform lists equal postal_codes.
C14_SerializationsFollowPostalCodes ==
    Returned =>
        LET ps == result.platform_serializations
        IN  /\ ps.meta_bulk_text = NewlineSeparated(result.postal_codes)
            /\ ps.tiktok_postal_codes = result.postal_codes
            /\ ps.linkedin_postal_codes = result.postal_codes
            /\ ps.pinterest_postal_codes = result.postal_codes
            /\ ps.google_ads_postal_codes = result.postal_codes

\* C14 at work: a result of several outcodes, its bulk text holding a newline
C14_Witness ==
    /\ Returned
    /\ Len(result.postal_codes) >= 2
    /\ \E i \in DOMAIN result.platform_serializations.meta_bulk_text :
          result.platform_serializations.meta_bulk_text[i] = "\n"

\* C15: a call sends at most two queries, the expansion first and the stats lookup
\* after it; the stats lookup is one query for all the outcodes resolved, sent in
\* the area branch only once the expansion has answered with rows; a call with a
\* full postcode sends no expansion query.
C15_QueryOrder ==
    /\ Len(queries) <= 2
    /\ \A i \in DOMAIN queries : queries[i].kind = "expand" => i = 1
    /\ \A i \in DOMAIN queries :
          queries[i].kind = "stats" =>
              /\ i = Len(queries)
              /\ IF i = 2
                 THEN /\ queries[1].kind = "expand"
                      /\ expanded # <<>>
                      /\ queries[i].params = expanded
                 ELSE /\ MatchesPostcodePattern(jobLocation)
                      /\ queries[i].params = <<OutcodePortion(jobLocation)>>
    /\ (pc # "idle" /\ MatchesPostcodePattern(jobLocation)) =>
          \A i \in DOMAIN queries : queries[i].kind = "stats"

\* C15 at work: an area call that returned after the expansion and one stats
\* query for its several outcodes
C15_Witness ==
    /\ Returned
    /\ Len(queries) = 2
    /\ queries[1].kind = "expand"
    /\ queries[2].kind = "stats"
    /\ Len(queries[2].params) >= 2

\* text holds a wildcard marker
HasWildcard(text) == \E i \in DOMAIN text : text[i] = "%"

\* C16: the expansion query compares against the trimmed text itself when the text
\* holds a wildcard marker, and against the text wrapped once in %...% when it
\* holds none.
C16_WildcardTextVerbatim ==
    \A i \in DOMAIN queries :
        queries[i].kind = "expand" =>
            queries[i].params =
                << IF HasWildcard(Trim(jobLocation))
                   THEN Trim(jobLocation)
                   ELSE <<"%">> \o Trim(jobLocation) \o <<"%">> >>

\* text is of the full-postcode form once trimmed and upper-cased: one or two
\* letters, one or two digits, an optional letter, an optional space, a digit and
\* two letters; or the special postcode GIR 0AA
FullPostcodeForm(text) ==
    /\ text # Null
    /\ LET u == ToUpperCase(Trim(text))
       IN  \/ u \in {<<"G","I","R"," ","0","A","A">>, <<"G","I","R","0","A","A">>}
           \/ \E a \in 1..2, d \in 1..2, t \in 0..1, w \in 0..1 :
                 LET o == a + d + t
                 IN  /\ Len(u) = o + w + 3
                     /\ \A i \in 1..a : IsUpper(u[i])
                     /\ \A i \in (a + 1)..(a + d) : IsDigit(u[i])
                     /\ t = 1 => IsUpper(u[o])
                     /\ w = 1 => u[o + 1] = " "
                     /\ IsDigit(u[o + w + 1])
                     /\ IsUpper(u[o + w + 2])
                     /\ IsUpper(u[o + w + 3])

\* C17: extractOutcodeFromPostcode gives GIR for the special postcode GIR 0AA, M1
\* for the single-letter-district postcode M1 1AA, and null for every string that
\* is not of the full-postcode form.
C17_PatternAcceptsSpecialForms ==
    fnName = "extractOutcodeFromPostcode" =>
        /\ fnInput \in GirForms => fnResult = <<"G","I","R">>
        /\ fnInput = <<"M","1"," ","1","A","A">> => fnResult = <<"M","1">>
        /\ ~FullPostcodeForm(fnInput) => fnResult = NoMatch

\* the status a row shows today
StatusOf(row) == deriveStatusAsOf(row, today)

\* a channel of the row is toggled ON
AnyChannelOn(row) == \E slug \in ChannelSlugs : isOn(row.id, slug)

\* a campaign that is not Expired is Live with a channel ON, Pending with all OFF
StatusFollows ==
    \A i \in DOMAIN jobRows :
        StatusOf(jobRows[i]) # "Expired" =>
            StatusOf(jobRows[i]) = IF AnyChannelOn(jobRows[i]) THEN "Live" ELSE "Pending"

\* the step changes no toggle of a campaign that is Expired
ExpiredLocked ==
    \A i \in DOMAIN jobRows :
        StatusOf(jobRows[i]) = "Expired" =>
            \A slug \in ChannelSlugs :
                (<<jobRows[i].id, slug>> \in toggleLS') = (<<jobRows[i].id, slug>> \in toggleLS)

\* C18: a campaign that is not Expired is Live when one of its channels is ON and
\* Pending when all are OFF, and no step changes a toggle of an Expired campaign.
C18_StatusFollowsToggles ==
    [][StatusFollows' /\ ExpiredLocked]_vars

\* every job active under a channel has a saved override with an area token
ActiveJobsHaveOverride ==
    \A c \in DOMAIN byChannel : \A j \in byChannel[c] : HasAreaToken(overrides, j)

\* C19: after every step each job active under a channel has a saved override
\* with a non-empty areaToken; a toggle request that names a job and a channel is
\* answered 400 and changes nothing when it activates a job without such an
\* override, and is accepted and leaves the job inactive under that channel when
\* it deactivates.
C19_ActiveJobsHaveArea ==
    [][/\ ActiveJobsHaveOverride'
       /\ (request'.route = "toggle" /\ ~Falsy(request'.jobId) /\ ~Falsy(request'.arg)) =>
             /\ (request'.active /\ ~HasAreaToken(overrides, request'.jobId)) =>
                   (response'.status = 400 /\ byChannel' = byChannel)
             /\ ~request'.active =>
                   /\ response'.status = 200
                   /\ request'.arg \in DOMAIN byChannel'
                   /\ request'.jobId \notin byChannel'[request'.arg]]_vars

\* text once trimmed, the empty string for a missing value
Trimmed(text) == IF Falsy(text) THEN <<>> ELSE Trim(text)

\* area equals a token of the areas list, ignoring case
ListedArea(area) ==
    \E i \in DOMAIN AREAS_CACHE : ToLowerCase(AREAS_CACHE[i]) = ToLowerCase(area)

\* the trimmed text of every jobId and area a location request may carry
TrimmedInput == [text \in LocationJobIds \cup AreaInputs |-> Trimmed(text)]

\* whether the trimmed area is listed, for every area a request may carry
ListedInput == [text \in AreaInputs |-> ListedArea(Trimmed(text))]

\* C20: a location request changes the stored overrides only when its area equals
\* a token of the areas list ignoring case, and then the job's override is that
\* token of the list; a request without jobId, without area or with an area that
\* is not listed is answered 400 and leaves the overrides as they were.
C20_LocationStoresListedToken ==
    [][request'.route = "location" =>
          LET jobId  == TrimmedInput[request'.jobId]
              area   == TrimmedInput[request'.arg]
              listed == ListedInput[request'.arg]
          IN  /\ (overrides' # overrides \/ response'.status = 200) =>
                    /\ jobId # <<>> /\ area # <<>> /\ listed
                    /\ response'.status = 200
                    /\ HasAreaToken(overrides', jobId)
                    /\ overrides'[jobId] \in Range(AREAS_CACHE)
                    /\ ToLowerCase(overrides'[jobId]) = ToLowerCase(area)
                    /\ response'.body = overrides'[jobId]
              /\ (jobId = <<>> \/ area = <<>> \/ ~listed) =>
                    (response'.status = 400 /\ overrides' = overrides)]_vars

\* C20 at work: " kent " submitted for job " 102 " stored the list's token Kent
\* under 102
C20_Witness ==
    /\ request.route = "location"
    /\ request.jobId = <<" ","1","0","2"," ">>
    /\ request.arg = <<" ","k","e","n","t"," ">>
    /\ response = Response(200, Kent)
    /\ HasAreaToken(overrides, <<"1","0","2">>)
    /\ overrides[<<"1","0","2">>] = Kent

\* C21: no call of getDistrictsByCounty or getByDistrictPrefix ends in a rejected
\* promise; a call with a blank argument, a call that got no pool and a call
\* whose query failed return the empty list; and a pool whose connectivity check
\* failed is never the shared pool, so the next call creates a new one.
C21_AdapterReturnsEmptyAndResets ==
    /\ \A c \in Callers :
          /\ callers[c].ret.kind # "rejected"
          /\ (callers[c].pc = "done"
                /\ (BlankArg(callers[c].arg) \/ callers[c].p = 0 \/ callers[c].query = "failed"))
             => callers[c].ret = GeoReturn("list", <<>>)
    /\ \A n \in DOMAIN poolState : poolState[n] = "failed" => pool # n

\* a call has returned without a pool after a failed check, and a later call has
\* created the next pool
C21_Witness ==
    /\ Len(poolState) = 2
    /\ poolState[1] = "failed"
    /\ pool = 2
    /\ \E c \in Callers : callers[c].pc = "done" /\ callers[c].p = 0 /\ ~BlankArg(callers[c].arg)

\* C26: a caller that ensurePool handed a pool holds a pool whose connectivity
\* check has succeeded, whatever the interleaving of the callers.
C26_PoolHandedOnlyAfterCheck ==
    \A c \in Callers : callers[c].p # 0 => poolState[callers[c].p] = "ok"

\* C25: when extractOutcodeFromPostcode has returned an outcode for an input,
\* deriveOutcodeFromPostcode called on the same input returns that same string.
C25_DerivationsAgree ==
    [][(/\ fnName = "extractOutcodeFromPostcode"
        /\ fnResult # NoMatch
        /\ fnName' = "deriveOutcodeFromPostcode"
        /\ fnInput' = fnInput) => fnResult' = fnResult]_vars

\* a request that was answered with a full page: jobs, and not fewer than perPage
FullPage(e) == e.ok /\ e.jobs > 0 /\ (e.perPage = Absent \/ e.jobs >= e.perPage)

\* the requests sent so far ask for pages 1, 2, ... up to maxPages; the next page
\* is asked for only after a full page; a page is asked for a second time only in
\* the page style after the pageNumber style failed; and after a request that
\* succeeded every later request has its style
PagerLogInOrder ==
    /\ \A i \in DOMAIN pgLog : pgLog[i].page \in 1..pgMaxPages
    /\ pgLog # <<>> => pgLog[1].page = 1
    /\ \A i \in 1..(Len(pgLog) - 1) :
          \/ pgLog[i + 1].page = pgLog[i].page + 1 /\ FullPage(pgLog[i])
          \/ /\ pgLog[i + 1].page = pgLog[i].page
             /\ ~pgLog[i].ok
             /\ pgLog[i].style = "pageNumber"
             /\ pgLog[i + 1].style = "page"
    /\ \A i, j \in DOMAIN pgLog : (i < j /\ pgLog[i].ok) => pgLog[j].style = pgLog[i].style
    /\ (pgPc = "loop" /\ pgLog # <<>>) =>
          (FullPage(pgLog[Len(pgLog)]) /\ pgPage = pgLog[Len(pgLog)].page + 1)

UrlExtension(segment) ==
    IF FirstDot(segment) > 0 THEN SubSeq(segment, FirstDot(segment) + 1, Len(segment)) ELSE <<>>

UrlChannel(segment) ==
    IF FirstDot(segment) > 0 THEN SubSeq(segment, 1, FirstDot(segment) - 1) ELSE segment

\* the first non-empty of the URL extension, ?format=, the channel's feedFormat,
\* the global outputFormat and "json", in lower case
PickedFormat ==
    LET read == feedRequest.settings
        ch   == UrlChannel(feedRequest.segment)
        feedFormat == IF ch \in DOMAIN read.channels THEN read.channels[ch] ELSE Null
    IN  ToLowerCase(OrElse(UrlExtension(feedRequest.segment), OrElse(feedRequest.format,
            OrElse(feedFormat, OrElse(read.outputFormat, Str.json)))))

\* C22: a feed is rendered as XML exactly when the first non-empty of the URL
\* extension, ?format=, the channel's feedFormat, the global outputFormat and
\* "json" is "xml" in any case, and as JSON otherwise.
C22_FormatPrecedence ==
    feedRequest.route = "feed" =>
        /\ feedResponse.format \in {"xml", "json"}
        /\ (feedResponse.format = "xml") <=> (PickedFormat = Str.xml)

\* C23: every job of a response of GET /api/jobs and of a feed has an eligibleDate
\* from 0 to 42 days before the asOf of the request and, when the source filter
\* read is not blank, a source equal to it ignoring case.
C23_JobsLiveAndOfSource ==
    \A i \in DOMAIN feedResponse.jobs :
        LET job    == feedResponse.jobs[i]
            filter == Trim(OrElse(feedRequest.settings.sourceFilter, <<>>))
        IN  /\ feedResponse.asOf # NoDate
            /\ job.eligibleDate # NoDate
            /\ feedResponse.asOf[1] - job.eligibleDate[1] \in 0..FeedWindowDays
            /\ filter # <<>> => ToLowerCase(job.source) = ToLowerCase(filter)

\* C27: a request that activates a job whose switch the table enables (the job as
\* served has locationStatus "valid" and an areaToken) is not answered with
\* "Select a valid area first".
C27_GatesAgree ==
    [][(/\ request' # request \/ response' # response
        /\ request'.route = "toggle"
        /\ request'.active
        /\ \E i \in DOMAIN tableJobs : tableJobs[i].id = request'.jobId /\ isAreaValid(tableJobs[i]))
       => ~(response'.status = 400 /\ response'.body = "Select a valid area first")]_vars

====
